---- MODULE Spec2Model ----
(***************************************************************************)
(* Frac-sequencing optimizer (optimize.py): the two-fleet timeline          *)
(* simulator, the chromosome decoder, the fitness function and the genetic  *)
(* search.  Durations are whole hours; fitness values are kept exact by      *)
(* scaling them by 240 (makespan/24 - 0.1*n  ==  (10*makespan - 24*n)/240).  *)
(***************************************************************************)
EXTENDS Integers, Sequences, FiniteSets, TLC

VARIABLES
    pc,          \* position of the running function
    wells,       \* list of Well records (the pad loaded by loadFromExcel)
    chromosome,  \* chromosome handed to buildSequence
    sequence,    \* list of (stage, fleet) handed to simulate
    idx,         \* number of entries of sequence the simulate loop has processed
    fleetTime,   \* simulate: fleetTime dict, keys "A" and "B"
    wellTime,    \* simulate: wellTime dict, keys added lazily
    timeline,    \* history of the start and finish computed at each loop iteration
    makespan,    \* value returned by simulate
    score,       \* value returned by fitness
    p1,          \* crossover: first parent
    p2,          \* crossover: second parent
    cut,         \* crossover: the cut point drawn by random.randint
    child,       \* crossover: the child; mutate: the chromosome mutated in place
    pop,         \* optimize: the pop argument
    generations, \* optimize: the generations argument
    gen,         \* optimize: generations completed
    population,  \* optimize: the population list
    nextGen,     \* optimize: the nextGen list
    best,        \* optimize: the chromosome returned
    gen0Best,    \* history: the best fitness in the generation-0 population
    row,         \* loadFromExcel: the row of the sheet being loaded
    pumpHr       \* loadFromExcel: what calculate_stage_duration(row) gave

simVars == <<sequence, idx, fleetTime, wellTime, timeline, makespan>>
fitVars == <<wells, chromosome, score>>
gaOpVars == <<p1, p2, cut, child>>
optVars == <<pop, generations, gen, population, nextGen, best, gen0Best>>
loadVars == <<row, pumpHr>>

vars == <<pc, wells, chromosome, sequence, idx, fleetTime, wellTime, timeline, makespan,
          score, p1, p2, cut, child, pop, generations, gen, population, nextGen, best,
          gen0Best, row, pumpHr>>

\* ---------------------------------------------------------------- bounds
MaxSeqLen == 4      \* longest hand-written sequence given to simulate
MaxDuration == 3    \* longest stage duration, in hours
MaxStages == 2      \* most stages of one well
MaxShuffled == 1    \* chromosomes of the first population whose shuffle is left open

Fleets == {"A", "B"}
SimWellIds == {"X", "Y"}

Max(a, b) == IF a >= b THEN a ELSE b

\* fitness values: float("inf"), or a finite score kept as 240 times its value
ZeroScore == [inf |-> FALSE, val |-> 0]
Inf == [inf |-> TRUE, val |-> 0]
Finite(v) == [inf |-> FALSE, val |-> v]
NoScore == [inf |-> FALSE, val |-> 0]

\* ---------------------------------------------------------------- data classes
Stage(stage_id, well_id, order, duration, completed) ==
    [stage_id |-> stage_id, well_id |-> well_id, order |-> order,
     duration |-> duration, completed |-> completed]

Well(well_id, stages) == [well_id |-> well_id, stages |-> stages]

\* ---------------------------------------------------------------- calculate_stage_duration
\* a row of the sheet: rate in bpm, clean volume in bbl, formation name, # Stages
Row(rate, cvol, formation, numStages) ==
    [rate |-> rate, cvol |-> cvol, formation |-> formation, numStages |-> numStages]

NoRow == Row(0, 0, "", 0)

\* what the estimator gives: a duration of num/den hours, a float that is not finite,
\* or an exception
Duration(num, den) == [kind |-> "duration", num |-> num, den |-> den]
NonFinite == [kind |-> "nonfinite", num |-> 0, den |-> 0]
Raised(e) == [kind |-> e, num |-> 0, den |-> 0]
NoEstimate == [kind |-> "none", num |-> 0, den |-> 0]

\* formation_factor, in hundredths: the table, and 1.10 for any other formation
FormationFactor(formation) ==
    CASE formation = "JM" -> 100
      [] formation = "DEAN" -> 105
      [] formation = "LSS" -> 110
      [] formation = "WCA" -> 115
      [] formation = "WCB" -> 120
      [] formation = "WCD" -> 125
      [] OTHER -> 110

NonPumpMinutes == 15

\* (cvol / (rate * 60)) * formation_factor + non_pump_minutes / 60, for rate # 0, as
\* the fraction (cvol * factor + 15 * 100 * rate) / (6000 * rate) of an hour
StageDuration(r) ==
    Duration(r.cvol * FormationFactor(r.formation) + NonPumpMinutes * 100 * r.rate,
             6000 * r.rate)

\* pumpHr = calculate_stage_duration(row), rate # 0: no check of rate or volume
CalculateStageDuration ==
    /\ pc = "estimate"
    /\ row.rate # 0
    /\ pumpHr' = StageDuration(row)
    /\ pc' = "estimated"
    /\ UNCHANGED <<row, simVars, fitVars, gaOpVars, optVars>>

\* cvol / (rate * 60) with rate = 0 on plain Python numbers: ZeroDivisionError
DivideByZeroRaises ==
    /\ pc = "estimate"
    /\ row.rate = 0
    /\ pumpHr' = Raised("ZeroDivisionError")
    /\ pc' = "error"
    /\ UNCHANGED <<row, simVars, fitVars, gaOpVars, optVars>>

\* cvol / (rate * 60) with rate = 0 on numpy scalars: inf or nan and a warning
DivideByZeroNonFinite ==
    /\ pc = "estimate"
    /\ row.rate = 0
    /\ pumpHr' = NonFinite
    /\ pc' = "estimated"
    /\ UNCHANGED <<row, simVars, fitVars, gaOpVars, optVars>>

\* ---------------------------------------------------------------- simulate
\* wellTime.get(well_id, 0.0)
WellTimeGet(wt, w) == IF w \in DOMAIN wt THEN wt[w] ELSE 0

\* a start that ignores the fleet's availability
StartTimeWellOnly(ft, wt, stage, fleet) == WellTimeGet(wt, stage.well_id)

\* a start that adds the two availabilities
StartTimeSum(ft, wt, stage, fleet) == ft[fleet] + WellTimeGet(wt, stage.well_id)

\* start = max(fleetTime[fleet], wellTime.get(stage.well_id, 0.0))
StartTime(ft, wt, stage, fleet) == Max(ft[fleet], WellTimeGet(wt, stage.well_id))

\* finish = start + stage.duration
FinishTime(start, stage) == start + stage.duration

\* wellTime[stage.well_id] = finish
DictSet(d, k, v) == [x \in (DOMAIN d) \cup {k} |-> IF x = k THEN v ELSE d[x]]

\* the availability of fleet A alone
MakespanFleetA(ft) == ft["A"]

\* max(fleetTime.values())
Makespan(ft) == Max(ft["A"], ft["B"])

InitFleetTime == [f \in Fleets |-> 0]
InitWellTime == [w \in {} |-> 0]

\* one iteration of "for stage, fleet in sequence"
SimulateStep ==
    /\ pc = "simulate"
    /\ idx < Len(sequence)
    /\ LET stage == sequence[idx + 1].stage
           fleet == sequence[idx + 1].fleet
           start == StartTime(fleetTime, wellTime, stage, fleet)
           finish == FinishTime(start, stage)
       IN /\ fleetTime' = [fleetTime EXCEPT ![fleet] = finish]
          /\ wellTime' = DictSet(wellTime, stage.well_id, finish)
          /\ timeline' = Append(timeline,
                 [stage_id |-> stage.stage_id, well_id |-> stage.well_id,
                  order |-> stage.order, fleet |-> fleet,
                  start |-> start, finish |-> finish])
    /\ idx' = idx + 1
    /\ UNCHANGED <<loadVars, pc, wells, chromosome, sequence, makespan, score, gaOpVars, optVars>>

\* return max(fleetTime.values())
SimulateReturn ==
    /\ pc = "simulate"
    /\ idx = Len(sequence)
    /\ makespan' = Makespan(fleetTime)
    /\ pc' = "returned"
    /\ UNCHANGED <<loadVars, wells, chromosome, sequence, idx, fleetTime, wellTime, timeline, score,
                   gaOpVars, optVars>>

\* simulate as a function of its argument: the final fleetTime after the loop
RECURSIVE SimulateLoop(_, _, _, _)
SimulateLoop(seq, i, ft, wt) ==
    IF i > Len(seq) THEN ft
    ELSE LET stage == seq[i].stage
             fleet == seq[i].fleet
             start == StartTime(ft, wt, stage, fleet)
             finish == FinishTime(start, stage)
         IN SimulateLoop(seq, i + 1, [ft EXCEPT ![fleet] = finish],
                         DictSet(wt, stage.well_id, finish))

Simulate(seq) == Makespan(SimulateLoop(seq, 1, InitFleetTime, InitWellTime))

\* ---------------------------------------------------------------- SpecSim
\* simulate called on an arbitrary list of (stage, fleet) assignments
Durations == 1..MaxDuration

\* the i-th entry of a hand-written sequence: stage ids count up, a well's
\* stages carry their position within the well as order, and every stage of a
\* well has the duration loadFromExcel computed for that well
SimEntry(dur, f, i) ==
    [stage |-> Stage(i - 1, f[i][1],
                     Cardinality({j \in 1..(i - 1) : f[j][1] = f[i][1]}),
                     dur[f[i][1]], FALSE),
     fleet |-> f[i][2]]

SimSequences ==
    UNION {{[i \in 1..n |-> SimEntry(dur, f, i)] :
              f \in [1..n -> SimWellIds \X Fleets], dur \in [SimWellIds -> Durations]} :
           n \in 0..MaxSeqLen}

InitSim ==
    /\ pc = "simulate"
    /\ wells = <<>>
    /\ chromosome = <<>>
    /\ sequence \in SimSequences
    /\ idx = 0
    /\ fleetTime = InitFleetTime
    /\ wellTime = InitWellTime
    /\ timeline = <<>>
    /\ makespan = 0
    /\ score = NoScore
    /\ row = NoRow /\ pumpHr = NoEstimate
    /\ p1 = <<>> /\ p2 = <<>> /\ cut = 0 /\ child = <<>>
    /\ pop = 0 /\ generations = 0 /\ gen = 0
    /\ population = <<>> /\ nextGen = <<>> /\ best = <<>> /\ gen0Best = NoScore

NextSim == SimulateStep \/ SimulateReturn

SpecSim == InitSim /\ [][NextSim]_vars

\* ---------------------------------------------------------------- loadFromExcel
\* rows: list of [name, numStages, pumpHr]; stage ids come from one running counter,
\* order counts from 0 within the well, every stage starts with completed = False
RECURSIVE LoadRows(_, _, _)
LoadRows(rows, r, idCount) ==
    IF r > Len(rows) THEN <<>>
    ELSE LET rw == rows[r]
             stages == [s \in 1..rw.numStages |->
                           Stage(idCount + s - 1, rw.name, s - 1, rw.pumpHr, FALSE)]
         IN <<Well(rw.name, stages)>> \o LoadRows(rows, r + 1, idCount + rw.numStages)

LoadFromExcel(rows) == LoadRows(rows, 1, 0)

\* the stage and well creation of loadFromExcel for the row whose estimate was returned
LoadStages ==
    /\ pc = "estimated"
    /\ wells' = LoadFromExcel(<<[name |-> "X", numStages |-> row.numStages, pumpHr |-> pumpHr]>>)
    /\ pc' = "loaded"
    /\ UNCHANGED <<loadVars, simVars, chromosome, score, gaOpVars, optVars>>

\* ---------------------------------------------------------------- SpecLoad
\* loadFromExcel on a sheet of one row, with any rate, volume and formation
Rates == -1..2
Volumes == {-60, 0, 60, 120}
Formations == {"JM", "DEAN", "LSS", "WCA", "WCB", "WCD", "BS"}

InitLoad ==
    /\ pc = "estimate"
    /\ row \in {Row(r, v, f, n) : r \in Rates, v \in Volumes, f \in Formations, n \in 1..MaxStages}
    /\ pumpHr = NoEstimate
    /\ wells = <<>>
    /\ chromosome = <<>>
    /\ sequence = <<>>
    /\ idx = 0
    /\ fleetTime = InitFleetTime
    /\ wellTime = InitWellTime
    /\ timeline = <<>>
    /\ makespan = 0
    /\ score = NoScore
    /\ p1 = <<>> /\ p2 = <<>> /\ cut = 0 /\ child = <<>>
    /\ pop = 0 /\ generations = 0 /\ gen = 0
    /\ population = <<>> /\ nextGen = <<>> /\ best = <<>> /\ gen0Best = NoScore

NextLoad == CalculateStageDuration \/ DivideByZeroRaises \/ DivideByZeroNonFinite \/ LoadStages

SpecLoad == InitLoad /\ [][NextLoad]_vars

\* the completed flags set between planning runs: done[w][s] for stage s of well w
MarkCompleted(ws, done) ==
    [w \in 1..Len(ws) |->
        [ws[w] EXCEPT !.stages =
            [s \in 1..Len(ws[w].stages) |-> [ws[w].stages[s] EXCEPT !.completed = done[w][s]]]]]

\* ---------------------------------------------------------------- buildSequence
\* wellMap = {w.well_id: w for w in wells}
WellMap(ws) ==
    [id \in {ws[i].well_id : i \in 1..Len(ws)} |->
        ws[CHOOSE i \in 1..Len(ws) :
              /\ ws[i].well_id = id
              /\ \A j \in 1..Len(ws) : ws[j].well_id = id => j <= i]]

\* return "A" if fleetTime["A"] >= fleetTime["B"] else "B"
BestFleet(stage, ft) == IF ft["A"] >= ft["B"] THEN "A" ELSE "B"

\* a well's stages taken last first
StagesReversed(well) == [s \in 1..Len(well.stages) |-> well.stages[Len(well.stages) + 1 - s]]

\* for stage in wellMap[well_id].stages
StagesOf(well) == well.stages

\* a stage is never skipped
SkipNone(stage) == FALSE

\* if stage.completed: continue
SkipStage(stage) == stage.completed

\* if active:
GeneActive(gene) == gene[2] # 0

\* the inner loop over one well's stages, from stage s on; acc = [seq, ft]
RECURSIVE BuildStages(_, _, _)
BuildStages(stages, s, acc) ==
    IF s > Len(stages) THEN acc
    ELSE IF SkipStage(stages[s]) THEN BuildStages(stages, s + 1, acc)
    ELSE LET fleet == BestFleet(stages[s], acc.ft)
         IN BuildStages(stages, s + 1,
                [seq |-> Append(acc.seq, [stage |-> stages[s], fleet |-> fleet]),
                 ft |-> [acc.ft EXCEPT ![fleet] = @ + stages[s].duration]])

\* the outer loop over the genes, from gene g on
RECURSIVE BuildGenes(_, _, _, _)
BuildGenes(chromo, g, wellMap, acc) ==
    IF g > Len(chromo) THEN acc
    ELSE IF GeneActive(chromo[g])
         THEN BuildGenes(chromo, g + 1, wellMap,
                         BuildStages(StagesOf(wellMap[chromo[g][1]]), 1, acc))
         ELSE BuildGenes(chromo, g + 1, wellMap, acc)

BuildSequence(chromo, ws) ==
    BuildGenes(chromo, 1, WellMap(ws), [seq |-> <<>>, ft |-> InitFleetTime]).seq

\* ---------------------------------------------------------------- fitness
AllGenesCounted(chromo) == Len(chromo)

\* wellsCompleted = sum(active for _, active in chromosome)
RECURSIVE WellsCompleted(_)
WellsCompleted(chromo) ==
    IF chromo = <<>> THEN 0 ELSE Head(chromo)[2] + WellsCompleted(Tail(chromo))

\* makespan/24.0 - 0.1 * wellsCompleted, times 240
ScoreOf(ms, chromo) == Finite(10 * ms - 24 * WellsCompleted(chromo))

\* fitness as a function of its arguments
Fitness(chromo, ws) ==
    LET seq == BuildSequence(chromo, ws)
    IN IF Len(seq) = 0 THEN Inf ELSE ScoreOf(Simulate(seq), chromo)

\* sequence = buildSequence(chromosome, wells), non-empty: go on to simulate
FitnessDecode ==
    /\ pc = "decode"
    /\ LET seq == BuildSequence(chromosome, wells)
       IN /\ Len(seq) # 0
          /\ sequence' = seq
    /\ pc' = "simulate"
    /\ UNCHANGED <<loadVars, wells, chromosome, idx, fleetTime, wellTime, timeline, makespan, score,
                   gaOpVars, optVars>>

\* if len(sequence) == 0: return float("inf")
FitnessEmpty ==
    /\ pc = "decode"
    /\ LET seq == BuildSequence(chromosome, wells)
       IN /\ Len(seq) = 0
          /\ sequence' = seq
    /\ score' = Inf
    /\ pc' = "done"
    /\ UNCHANGED <<loadVars, wells, chromosome, idx, fleetTime, wellTime, timeline, makespan, gaOpVars, optVars>>

\* return makespanDays - 0.1 * wellsCompleted
FitnessReturn ==
    /\ pc = "returned"
    /\ score' = ScoreOf(makespan, chromosome)
    /\ pc' = "done"
    /\ UNCHANGED <<loadVars, wells, chromosome, sequence, idx, fleetTime, wellTime, timeline, makespan,
                   gaOpVars, optVars>>

\* ---------------------------------------------------------------- crossover
\* the well ids of a chromosome's genes
WellIds(chromo) == {chromo[g][1] : g \in 1..Len(chromo)}

\* the cut points of random.randint(1, len(p1) - 1)
CutPointsToLast(parent) == 1..(Len(parent) - 1)

\* random.randint(1, len(p1) - 2): the values it can return
CutPoints(parent) == 1..(Len(parent) - 2)

\* every gene of the second parent is appended
KeepAll(gene, used) == TRUE

\* if gene[0] not in used
NotUsed(gene, used) == gene[1] \notin used

\* child = p1[:cut]; used = {w for w, _ in child}; append p2's genes not in used
CrossoverAt(parent1, parent2, c) ==
    LET head == SubSeq(parent1, 1, c)
        used == WellIds(head)
        Fresh(gene) == NotUsed(gene, used)
    IN head \o SelectSeq(parent2, Fresh)

Crossover ==
    /\ pc = "crossover"
    /\ \E c \in CutPoints(p1) :
          /\ cut' = c
          /\ child' = CrossoverAt(p1, p2, c)
    /\ pc' = "done"
    /\ UNCHANGED <<loadVars, simVars, fitVars, p1, p2, optVars>>

\* random.randint(1, len(p1) - 2) raises ValueError on an empty range: no child
CrossoverFail ==
    /\ pc = "crossover"
    /\ CutPoints(p1) = {}
    /\ pc' = "error"
    /\ UNCHANGED <<loadVars, simVars, fitVars, gaOpVars, optVars>>

\* ---------------------------------------------------------------- SpecCrossover
\* crossover called on two chromosomes of at least three genes with unique well ids
CrossWellIds == {"W", "X", "Y", "Z"}

\* one-to-one lists of n well ids
WellOrders(ids, n) == {o \in [1..n -> ids] : \A i, j \in 1..n : o[i] = o[j] => i = j}

ParentChromosomes ==
    UNION {{[g \in 1..n |-> <<o[g], a[g]>>] :
              o \in WellOrders(CrossWellIds, n), a \in [1..n -> {0, 1}]} :
           n \in 3..Cardinality(CrossWellIds)}

InitCrossover ==
    /\ pc = "crossover"
    /\ p1 \in ParentChromosomes
    /\ p2 \in ParentChromosomes
    /\ cut = 0
    /\ child = <<>>
    /\ wells = <<>>
    /\ chromosome = <<>>
    /\ sequence = <<>>
    /\ idx = 0
    /\ fleetTime = InitFleetTime
    /\ wellTime = InitWellTime
    /\ timeline = <<>>
    /\ makespan = 0
    /\ score = NoScore
    /\ row = NoRow /\ pumpHr = NoEstimate
    /\ pop = 0 /\ generations = 0 /\ gen = 0
    /\ population = <<>> /\ nextGen = <<>> /\ best = <<>> /\ gen0Best = NoScore

NextCrossover == Crossover

SpecCrossover == InitCrossover /\ [][NextCrossover]_vars

\* ---------------------------------------------------------------- SpecCrossoverAny
\* crossover called on two chromosomes of any length, each with unique well ids
AnyChromosomes ==
    UNION {{[g \in 1..n |-> <<o[g], a[g]>>] :
              o \in WellOrders(CrossWellIds, n), a \in [1..n -> {0, 1}]} :
           n \in 0..Cardinality(CrossWellIds)}

InitCrossoverAny ==
    /\ pc = "crossover"
    /\ p1 \in AnyChromosomes
    /\ p2 \in AnyChromosomes
    /\ cut = 0
    /\ child = <<>>
    /\ wells = <<>>
    /\ chromosome = <<>>
    /\ sequence = <<>>
    /\ idx = 0
    /\ fleetTime = InitFleetTime
    /\ wellTime = InitWellTime
    /\ timeline = <<>>
    /\ makespan = 0
    /\ score = NoScore
    /\ row = NoRow /\ pumpHr = NoEstimate
    /\ pop = 0 /\ generations = 0 /\ gen = 0
    /\ population = <<>> /\ nextGen = <<>> /\ best = <<>> /\ gen0Best = NoScore

NextCrossoverAny == Crossover \/ CrossoverFail

SpecCrossoverAny == InitCrossoverAny /\ [][NextCrossoverAny]_vars

\* ---------------------------------------------------------------- mutate
\* the sets of positions whose draw random.random() < rate succeeds; the rate is in
\* hundredths, and a draw lies in [0, 1)
FlipSets(rate, n) ==
    IF rate <= 0 THEN {{}}
    ELSE IF rate >= 100 THEN {1..n}
    ELSE SUBSET (1..n)

\* n positions drawn with repetition
OrdersWithRepetition(n) == [1..n -> 1..n]

\* random.shuffle(chromosome): the orders it can produce
ShuffleOrders(n) == {p \in [1..n -> 1..n] : \A i, j \in 1..n : p[i] = p[j] => i = j}

\* chromosome[i] = well_id, 1 - active
FlipGene(gene) == <<gene[1], 1 - gene[2]>>

\* the chromosome after the flips at the positions in flips and the shuffle to order
MutateWith(chromo, flips, order) ==
    LET flipped == [g \in 1..Len(chromo) |->
                       IF g \in flips THEN FlipGene(chromo[g]) ELSE chromo[g]]
    IN [g \in 1..Len(chromo) |-> flipped[order[g]]]

\* the results mutate(chromo, rate) can leave in chromo
MutateResults(chromo, rate) ==
    {MutateWith(chromo, flips, order) :
        flips \in FlipSets(rate, Len(chromo)), order \in ShuffleOrders(Len(chromo))}

MutationRates == {0, 15, 100}

Mutate ==
    /\ pc = "mutate"
    /\ \E rate \in MutationRates : child' \in MutateResults(child, rate)
    /\ pc' = "done"
    /\ UNCHANGED <<loadVars, simVars, fitVars, p1, p2, cut, optVars>>

\* ---------------------------------------------------------------- SpecMutate
\* mutate called on a chromosome with unique well ids; chromosome keeps the list as
\* it was at the call, child is the list mutated in place
MutateChromosomes ==
    UNION {{[g \in 1..n |-> <<o[g], a[g]>>] :
              o \in WellOrders(CrossWellIds, n), a \in [1..n -> {0, 1}]} :
           n \in 0..Cardinality(CrossWellIds)}

InitMutate ==
    /\ pc = "mutate"
    /\ child \in MutateChromosomes
    /\ chromosome = child
    /\ p1 = <<>> /\ p2 = <<>> /\ cut = 0
    /\ wells = <<>>
    /\ sequence = <<>>
    /\ idx = 0
    /\ fleetTime = InitFleetTime
    /\ wellTime = InitWellTime
    /\ timeline = <<>>
    /\ makespan = 0
    /\ score = NoScore
    /\ row = NoRow /\ pumpHr = NoEstimate
    /\ pop = 0 /\ generations = 0 /\ gen = 0
    /\ population = <<>> /\ nextGen = <<>> /\ best = <<>> /\ gen0Best = NoScore

NextMutate == Mutate

SpecMutate == InitMutate /\ [][NextMutate]_vars

\* ---------------------------------------------------------------- SpecFitness
\* fitness called on a chromosome over a loaded pad, some stages already completed
PadWellIds == <<"X", "Y">>

PadRows ==
    {[w \in 1..Len(PadWellIds) |->
         [name |-> PadWellIds[w], numStages |-> n[w], pumpHr |-> d[w]]] :
        n \in [1..Len(PadWellIds) -> 1..MaxStages], d \in [1..Len(PadWellIds) -> Durations]}

CompletedFlags(ws) ==
    {done \in [1..Len(ws) -> UNION {[1..k -> BOOLEAN] : k \in 0..MaxStages}] :
        \A w \in 1..Len(ws) : DOMAIN done[w] = 1..Len(ws[w].stages)}

Pads == UNION {{MarkCompleted(LoadFromExcel(rows), done) :
                  done \in CompletedFlags(LoadFromExcel(rows))} : rows \in PadRows}

\* the chromosomes over a pad: one gene per well, in any order, with any flags
ChromosomesOf(ws) ==
    {[g \in 1..Len(ws) |-> <<ws[p[g]].well_id, a[g]>>] :
        p \in ShuffleOrders(Len(ws)), a \in [1..Len(ws) -> {0, 1}]}

InitFitness ==
    /\ pc = "decode"
    /\ wells \in Pads
    /\ chromosome \in ChromosomesOf(wells)
    /\ sequence = <<>>
    /\ idx = 0
    /\ fleetTime = InitFleetTime
    /\ wellTime = InitWellTime
    /\ timeline = <<>>
    /\ makespan = 0
    /\ score = NoScore
    /\ row = NoRow /\ pumpHr = NoEstimate
    /\ p1 = <<>> /\ p2 = <<>> /\ cut = 0 /\ child = <<>>
    /\ pop = 0 /\ generations = 0 /\ gen = 0
    /\ population = <<>> /\ nextGen = <<>> /\ best = <<>> /\ gen0Best = NoScore

NextFitness == FitnessDecode \/ FitnessEmpty \/ SimulateStep \/ SimulateReturn \/ FitnessReturn

SpecFitness == InitFitness /\ [][NextFitness]_vars

\* ---------------------------------------------------------------- optimize
EliteCount == 10    \* nextGen = population[:10]
PoolSize == 25      \* random.sample(population[:25], 2)
DefaultRate == 15   \* mutate(chromosome, rate = 0.15), in hundredths

Min(a, b) == IF a <= b THEN a ELSE b

\* a < b on fitness values
FitLess(a, b) == IF a.inf THEN FALSE ELSE IF b.inf THEN TRUE ELSE a.val < b.val
FitLeq(a, b) == ~FitLess(b, a)

\* the least fitness value found in a population
LeastFitness(popn, ws) ==
    LET values == {Fitness(popn[k], ws) : k \in 1..Len(popn)}
    IN CHOOSE v \in values : \A u \in values : FitLeq(v, u)

\* a chromosome with every gene inactive
InactiveChromosomeWith(ws, order) == [g \in 1..Len(ws) |-> <<ws[order[g]].well_id, 0>>]

\* randomChromosome: every well active, genes in a shuffled order
RandomChromosomeWith(ws, order) == [g \in 1..Len(ws) |-> <<ws[order[g]].well_id, 1>>]

\* list.sort(key = fitness): stable, ascending; c goes behind the keys not above its own
RECURSIVE InsertByFitness(_, _, _)
InsertByFitness(sorted, c, ws) ==
    IF sorted = <<>> THEN <<c>>
    ELSE IF FitLess(Fitness(c, ws), Fitness(sorted[Len(sorted)], ws))
         THEN Append(InsertByFitness(SubSeq(sorted, 1, Len(sorted) - 1), c, ws),
                     sorted[Len(sorted)])
         ELSE Append(sorted, c)

RECURSIVE SortFrom(_, _, _, _)
SortFrom(popn, k, sorted, ws) ==
    IF k > Len(popn) THEN sorted
    ELSE SortFrom(popn, k + 1, InsertByFitness(sorted, popn[k], ws), ws)

SortByFitness(popn, ws) == SortFrom(popn, 1, <<>>, ws)

\* min(population, key = fitness): the first chromosome of least fitness
RECURSIVE MinFrom(_, _, _, _)
MinFrom(popn, k, least, ws) ==
    IF k > Len(popn) THEN least
    ELSE MinFrom(popn, k + 1,
                 IF FitLess(Fitness(popn[k], ws), Fitness(least, ws)) THEN popn[k] ELSE least,
                 ws)

\* the chromosome at the end of the list
LastChromosome(popn, ws) == popn[Len(popn)]

MinByFitness(popn, ws) == MinFrom(popn, 2, popn[1], ws)

\* the last EliteCount chromosomes of the sorted population
EliteFromEnd(popn) == SubSeq(popn, Len(popn) - Min(EliteCount, Len(popn)) + 1, Len(popn))

\* population[:10]
Elite(popn) == SubSeq(popn, 1, Min(EliteCount, Len(popn)))

\* population[:25]
ParentPool(popn) == SubSeq(popn, 1, Min(PoolSize, Len(popn)))

\* a fill loop that goes on while len(nextGen) <= pop
FillMoreInclusive(ng, n) == Len(ng) <= n

\* while len(nextGen) < pop
FillMore(ng, n) == Len(ng) < n

\* a child that is the first parent's own list: the change made to it in place shows in
\* the population, and in nextGen when that parent is an elite
MutateSharedParent(popn, ng, parent1, m) ==
    LET i == CHOOSE k \in 1..Len(popn) :
                 popn[k] = parent1 /\ \A j \in 1..(k - 1) : popn[j] # parent1
    IN [population |-> [popn EXCEPT ![i] = m],
        nextGen |-> Append(IF i <= Min(EliteCount, Len(popn)) THEN [ng EXCEPT ![i] = m]
                                                                ELSE ng, m)]

\* child = p1[:cut] is a new list and genes are tuples: mutate(child) changes child
\* alone; nextGen.append(child)
MutateChild(popn, ng, parent1, m) == [population |-> popn, nextGen |-> Append(ng, m)]

\* population.sort(key = fitness); nextGen = population[:10]
OptSort ==
    /\ pc = "generation"
    /\ gen < generations
    /\ population' = SortByFitness(population, wells)
    /\ nextGen' = Elite(population')
    /\ pc' = "fill"
    /\ UNCHANGED <<loadVars, simVars, fitVars, gaOpVars, pop, generations, gen, best, gen0Best>>

\* while len(nextGen) < pop: p1, p2 = random.sample(population[:25], 2);
\* child = crossover(p1, p2)
OptCrossover ==
    /\ pc = "fill"
    /\ FillMore(nextGen, pop)
    /\ LET pool == ParentPool(population)
       IN \E i, j \in 1..Len(pool) :
             /\ i # j
             /\ p1' = pool[i]
             /\ p2' = pool[j]
             /\ \E c \in CutPoints(pool[i]) :
                   /\ cut' = c
                   /\ child' = CrossoverAt(pool[i], pool[j], c)
    /\ pc' = "mutate"
    /\ UNCHANGED <<loadVars, simVars, fitVars, optVars>>

\* mutate(child); nextGen.append(child).  The iteration's locals p1, p2 and cut are
\* bound again before they are next read, and are dropped here
OptMutate ==
    /\ pc = "mutate"
    /\ \E m \in MutateResults(child, DefaultRate) :
          LET after == MutateChild(population, nextGen, p1, m)
          IN /\ child' = m
             /\ population' = after.population
             /\ nextGen' = after.nextGen
    /\ p1' = <<>> /\ p2' = <<>> /\ cut' = 0
    /\ pc' = "fill"
    /\ UNCHANGED <<loadVars, simVars, fitVars, pop, generations, gen, best, gen0Best>>

\* the while loop ends; population = nextGen.  child is dropped like the other locals
OptNextGeneration ==
    /\ pc = "fill"
    /\ ~FillMore(nextGen, pop)
    /\ population' = nextGen
    /\ gen' = gen + 1
    /\ child' = <<>>
    /\ pc' = "generation"
    /\ UNCHANGED <<loadVars, simVars, fitVars, p1, p2, cut, pop, generations, nextGen, best, gen0Best>>

\* best = min(population, key = fitness); return best
OptReturn ==
    /\ pc = "generation"
    /\ gen = generations
    /\ best' = MinByFitness(population, wells)
    /\ pc' = "done"
    /\ UNCHANGED <<loadVars, simVars, fitVars, gaOpVars, pop, generations, gen, population, nextGen,
                   gen0Best>>

\* ---------------------------------------------------------------- SpecOptimize
\* optimize called on a pad of three wells
\* the pads searched: all work open, a pad re-planned with stages completed, and a
\* pad with no work left
OptPads ==
    {LoadFromExcel(<<[name |-> "X", numStages |-> 1, pumpHr |-> 1],
                     [name |-> "Y", numStages |-> 1, pumpHr |-> 3],
                     [name |-> "Z", numStages |-> 2, pumpHr |-> 2]>>),
     MarkCompleted(LoadFromExcel(<<[name |-> "X", numStages |-> 1, pumpHr |-> 1],
                                   [name |-> "Y", numStages |-> 2, pumpHr |-> 3],
                                   [name |-> "Z", numStages |-> 1, pumpHr |-> 2]>>),
                   <<<<TRUE>>, <<TRUE, FALSE>>, <<FALSE>>>>),
     MarkCompleted(LoadFromExcel(<<[name |-> "X", numStages |-> 1, pumpHr |-> 1],
                                   [name |-> "Y", numStages |-> 1, pumpHr |-> 3],
                                   [name |-> "Z", numStages |-> 1, pumpHr |-> 2]>>),
                   <<<<TRUE>>, <<TRUE>>, <<TRUE>>>>)}

PopSizes == {2, EliteCount + 1}

\* the generations arguments searched; a population of EliteCount + 1 grows by one
\* child per generation, and elitism first decides something in the second generation
GenerationCounts == 0..2

IdentityOrder(n) == [g \in 1..n |-> g]

\* population = [randomChromosome(wells) for _ in range(pop)]; the shuffles of the
\* first MaxShuffled chromosomes are left open, the others come out in list order
InitialPopulations(ws, n) ==
    {[k \in 1..n |-> RandomChromosomeWith(ws, IF k <= MaxShuffled THEN o[k]
                                                ELSE IdentityOrder(Len(ws)))] :
        o \in [1..Min(n, MaxShuffled) -> ShuffleOrders(Len(ws))]}

InitOptimize ==
    /\ pc = "generation"
    /\ wells \in OptPads
    /\ pop \in PopSizes
    /\ generations \in GenerationCounts
    /\ gen = 0
    /\ population \in InitialPopulations(wells, pop)
    /\ nextGen = <<>>
    /\ best = <<>>
    /\ gen0Best = LeastFitness(population, wells)
    /\ p1 = <<>> /\ p2 = <<>> /\ cut = 0 /\ child = <<>>
    /\ chromosome = <<>>
    /\ sequence = <<>>
    /\ idx = 0
    /\ fleetTime = InitFleetTime
    /\ wellTime = InitWellTime
    /\ timeline = <<>>
    /\ makespan = 0
    /\ score = NoScore
    /\ row = NoRow /\ pumpHr = NoEstimate

NextOptimize == OptSort \/ OptCrossover \/ OptMutate \/ OptNextGeneration \/ OptReturn

SpecOptimize == InitOptimize /\ [][NextOptimize]_vars

\* ---------------------------------------------------------------- claims on simulate
\* total duration of the entries of seq
RECURSIVE SumDurations(_)
SumDurations(seq) ==
    IF seq = <<>> THEN 0 ELSE Head(seq).stage.duration + SumDurations(Tail(seq))

FleetTotal(f) == LET OnFleet(e) == e.fleet = f IN SumDurations(SelectSeq(sequence, OnFleet))

\* finish of the last record before position i that satisfies Sel, 0 when there is none
LastFinishBefore(i, Sel(_)) ==
    LET prior == {j \in 1..(i - 1) : Sel(timeline[j])}
    IN IF prior = {} THEN 0
       ELSE timeline[CHOOSE j \in prior : \A k \in prior : k <= j].finish

FleetAvailableBefore(i, f) == LET OnFleet(r) == r.fleet = f IN LastFinishBefore(i, OnFleet)
WellAvailableBefore(i, w) == LET OfWell(r) == r.well_id = w IN LastFinishBefore(i, OfWell)

\* C1: no two stages assigned to the same fleet have overlapping [start, finish)
\* intervals, at any point of simulate's loop, for any sequence of assignments
\* with positive durations.
C1_NoFleetOverlap ==
    \A i, j \in 1..Len(timeline) :
        (i < j /\ timeline[i].fleet = timeline[j].fleet)
            => (timeline[i].finish <= timeline[j].start
                \/ timeline[j].finish <= timeline[i].start)

\* two stages of different wells ran back to back on one fleet
C1_Witness ==
    /\ pc = "returned"
    /\ \E i, j \in 1..Len(timeline) :
          /\ i < j
          /\ timeline[i].fleet = timeline[j].fleet
          /\ timeline[i].well_id # timeline[j].well_id
          /\ timeline[j].start = timeline[i].finish
          /\ timeline[j].finish > timeline[j].start

\* C4: simulate processes the sequence strictly in the given order, one entry at a
\* time, without reordering, skipping or merging; each start is the max of the
\* fleet's and the well's availability (both 0 at first), finish = start + duration
\* and both availabilities become finish; the returned makespan is the max of the
\* two fleets' final available times, 0 for the empty sequence.
C4_SimulateInOrder ==
    /\ Len(timeline) = idx
    /\ idx <= Len(sequence)
    /\ \A i \in 1..Len(timeline) :
          /\ timeline[i].stage_id = sequence[i].stage.stage_id
          /\ timeline[i].well_id = sequence[i].stage.well_id
          /\ timeline[i].fleet = sequence[i].fleet
          /\ timeline[i].start = Max(FleetAvailableBefore(i, timeline[i].fleet),
                                     WellAvailableBefore(i, timeline[i].well_id))
          /\ timeline[i].finish = timeline[i].start + sequence[i].stage.duration
    /\ \A f \in Fleets : fleetTime[f] = FleetAvailableBefore(idx + 1, f)
    /\ \A w \in DOMAIN wellTime : wellTime[w] = WellAvailableBefore(idx + 1, w)
    /\ pc = "returned" =>
          /\ idx = Len(sequence)
          /\ makespan = Max(FleetAvailableBefore(idx + 1, "A"),
                            FleetAvailableBefore(idx + 1, "B"))
          /\ (sequence = <<>> => makespan = 0)

\* simulate returned with fleet B the later one, after a stage had to wait for its
\* well although its fleet was idle
C4_Witness ==
    /\ pc = "returned"
    /\ Len(sequence) >= 3
    /\ makespan = fleetTime["B"]
    /\ fleetTime["B"] > fleetTime["A"]
    /\ fleetTime["A"] > 0
    /\ \E i \in 1..Len(timeline) :
          timeline[i].start > FleetAvailableBefore(i, timeline[i].fleet)

\* no well is served by both fleets
SingleFleetWells ==
    \A i, j \in 1..Len(sequence) :
        sequence[i].stage.well_id = sequence[j].stage.well_id
            => sequence[i].fleet = sequence[j].fleet

\* C5: when every well's stages are all assigned to one fleet, the makespan returned
\* by simulate is the larger of the two fleets' total assigned durations.
C5_SingleFleetMakespan ==
    (pc = "returned" /\ SingleFleetWells)
        => makespan = Max(FleetTotal("A"), FleetTotal("B"))

\* the scenario of the specification: two stages of 2h on fleet A, two stages of 3h
\* on fleet B, makespan 6h
C5_Witness ==
    /\ pc = "returned"
    /\ Len(sequence) = 4
    /\ SingleFleetWells
    /\ \A i \in 1..4 :
          \/ (sequence[i].stage.well_id = "X" /\ sequence[i].fleet = "A"
              /\ sequence[i].stage.duration = 2)
          \/ (sequence[i].stage.well_id = "Y" /\ sequence[i].fleet = "B"
              /\ sequence[i].stage.duration = 3)
    /\ FleetTotal("A") = 4
    /\ FleetTotal("B") = 6
    /\ makespan = 6

\* ---------------------------------------------------------------- claims on buildSequence
\* C2: when simulate runs the sequence built by buildSequence, the stages of one well
\* are executed in increasing order, and a later stage of a well never starts before
\* an earlier stage of that well has finished.
C2_WellStagesInOrder ==
    \A i, j \in 1..Len(timeline) :
        timeline[i].well_id = timeline[j].well_id =>
            /\ (i < j => timeline[i].order < timeline[j].order)
            /\ (timeline[i].order < timeline[j].order
                    => timeline[i].finish <= timeline[j].start)

\* two wells were decoded and simulated, the second gene's well with both of its
\* stages, the later stage starting when the earlier one finished
C2_Witness ==
    /\ pc = "done"
    /\ \E i, j \in 1..Len(timeline) :
          /\ i > 1
          /\ j = i + 1
          /\ timeline[i].well_id = timeline[j].well_id
          /\ timeline[1].well_id # timeline[i].well_id
          /\ timeline[i].order = 0
          /\ timeline[j].order = 1
          /\ timeline[j].start = timeline[i].finish

\* the decoder's running estimate of fleet f before it places entry i
EstimateBefore(i, f) ==
    LET OnFleet(e) == e.fleet = f
    IN SumDurations(SelectSeq(SubSeq(sequence, 1, i - 1), OnFleet))

\* C3: buildSequence assigns each stage to the fleet whose running estimate is the
\* smaller one, to fleet A on a tie, and then adds the stage's duration to that
\* fleet's estimate.
C3_GreedyEarliestFleet ==
    \A i \in 1..Len(sequence) :
        sequence[i].fleet = (IF EstimateBefore(i, "A") <= EstimateBefore(i, "B")
                             THEN "A" ELSE "B")

\* position of a well's gene in the chromosome
GenePos(w) == CHOOSE g \in 1..Len(chromosome) : chromosome[g][1] = w

\* the stage ids buildSequence has to schedule
PendingStageIds ==
    {wells[w].stages[s].stage_id :
        <<w, s>> \in {ws \in (1..Len(wells)) \X (1..MaxStages) :
                        /\ ws[2] <= Len(wells[ws[1]].stages)
                        /\ ~wells[ws[1]].stages[ws[2]].completed
                        /\ \E g \in 1..Len(chromosome) :
                              /\ chromosome[g][1] = wells[ws[1]].well_id
                              /\ chromosome[g][2] = 1}}

\* C6: the decoded sequence holds exactly the uncompleted stages of the wells whose
\* gene is active, each once; wells come in the order of their genes, and the stages
\* of a well come together, in increasing order.
C6_DecodedStages ==
    pc # "decode" =>
        /\ {sequence[i].stage.stage_id : i \in 1..Len(sequence)} = PendingStageIds
        /\ Len(sequence) = Cardinality(PendingStageIds)
        /\ \A i \in 1..Len(sequence) :
              /\ ~sequence[i].stage.completed
              /\ \E w \in 1..Len(wells) : \E s \in 1..Len(wells[w].stages) :
                    wells[w].stages[s] = sequence[i].stage
        /\ \A i, j \in 1..Len(sequence) :
              i < j =>
                 \/ GenePos(sequence[i].stage.well_id) < GenePos(sequence[j].stage.well_id)
                 \/ /\ sequence[i].stage.well_id = sequence[j].stage.well_id
                    /\ sequence[i].stage.order < sequence[j].stage.order

\* the first gene is inactive and its well has work left, the second gene's well has
\* a completed stage and an uncompleted one: only the latter is decoded
C6_Witness ==
    /\ pc = "done"
    /\ Len(chromosome) = 2
    /\ chromosome[1][2] = 0
    /\ chromosome[2][2] = 1
    /\ chromosome[2][1] = wells[1].well_id
    /\ \E s \in 1..Len(wells[2].stages) : ~wells[2].stages[s].completed
    /\ Len(wells[1].stages) = 2
    /\ wells[1].stages[1].completed
    /\ ~wells[1].stages[2].completed
    /\ Len(sequence) = 1
    /\ sequence[1].stage = wells[1].stages[2]

\* ---------------------------------------------------------------- claims on crossover and mutate
\* no well id occurs twice in the chromosome
UniqueWellIds(chromo) == Cardinality(WellIds(chromo)) = Len(chromo)

\* C8 as stated: for any two parents of at least three genes with unique well ids
\* and any cut, the child has exactly one gene for every well id of parent 1 or
\* parent 2, and no well id twice.
C8_ChildCoversUnion ==
    pc = "done" =>
        /\ UniqueWellIds(child)
        /\ WellIds(child) = WellIds(p1) \cup WellIds(p2)

\* C8 amended: the child never holds a well id twice and holds exactly one gene for
\* every well id of parent 2 and of parent 1's genes before the cut; it holds exactly
\* one gene for every well id of parent 1 or parent 2 whenever every well id of
\* parent 1 also appears in parent 2.
C8_ChildUniqueWells ==
    pc = "done" =>
        /\ UniqueWellIds(child)
        /\ WellIds(child) = WellIds(SubSeq(p1, 1, cut)) \cup WellIds(p2)
        /\ (WellIds(p1) \subseteq WellIds(p2)
               => WellIds(child) = WellIds(p1) \cup WellIds(p2))

\* two parents over the same four wells, cut after two genes: the child takes two
\* genes of parent 1, skips them in parent 2 and takes parent 2's other two genes
C8_Witness ==
    /\ pc = "done"
    /\ Len(p1) = 4
    /\ WellIds(p1) = WellIds(p2)
    /\ cut = 2
    /\ Len(child) = 4
    /\ child[1] = p1[1]
    /\ child[2] = p1[2]
    /\ \E g \in 1..2 : p2[g][1] \in {p1[1][1], p1[2][1]} /\ p2[g] \notin {p1[1], p1[2]}
    /\ \E g \in 1..4 : child[3] = p2[g] /\ child[3] # p1[3] /\ child[3] # p1[4]

\* how many genes of the chromosome carry well id w
GeneCount(chromo, w) == Cardinality({g \in 1..Len(chromo) : chromo[g][1] = w})

\* C10: mutate leaves the set and the count of well ids of the chromosome unchanged,
\* for every mutation rate and every outcome of the random draws.
C10_MutateKeepsWellIds ==
    pc = "done" =>
        /\ Len(child) = Len(chromosome)
        /\ WellIds(child) = WellIds(chromosome)
        /\ \A w \in CrossWellIds : GeneCount(child, w) = GeneCount(chromosome, w)

\* mutate flipped a flag and moved genes: same wells, another order, another flag
C10_Witness ==
    /\ pc = "done"
    /\ Len(chromosome) >= 3
    /\ child[1][1] # chromosome[1][1]
    /\ \E g, h \in 1..Len(child) :
          /\ child[g][1] = chromosome[h][1]
          /\ child[g][2] # chromosome[h][2]
    /\ \E g, h \in 1..Len(child) : child[g] = chromosome[h]

\* ---------------------------------------------------------------- claims on optimize
\* C7: the chromosome optimize returns has a fitness no greater than the best fitness
\* of the generation-0 population, and the best fitness in the population never
\* increases from one generation to the next: when the fill loop has ended, the best
\* of nextGen is no worse than the best of the population it replaces.
C7_BestNeverWorsens ==
    /\ pc = "generation" => FitLeq(LeastFitness(population, wells), gen0Best)
    /\ (pc = "fill" /\ Len(nextGen) >= pop)
          => FitLeq(LeastFitness(nextGen, wells), LeastFitness(population, wells))
    /\ pc = "done" => FitLeq(Fitness(best, wells), gen0Best)

\* after two generations of a population of eleven optimize returned a chromosome
\* that beats every chromosome of generation 0, while a worse child is in the
\* final population too
C7_Witness ==
    /\ pc = "done"
    /\ gen = 2
    /\ pop > EliteCount
    /\ FitLess(Fitness(best, wells), gen0Best)
    /\ \E k \in 1..Len(population) : FitLess(gen0Best, Fitness(population[k], wells))

\* c has exactly one gene for every well of the pad
OneGenePerWell(c) ==
    /\ Len(c) = Len(wells)
    /\ WellIds(c) = {wells[w].well_id : w \in 1..Len(wells)}

\* C9: at every generation (initial population, after every crossover and mutation,
\* and in the result) every chromosome holds exactly one gene per well of the input
\* list, with unique well ids.
C9_OneGenePerWell ==
    /\ \A k \in 1..Len(population) : OneGenePerWell(population[k])
    /\ \A k \in 1..Len(nextGen) : OneGenePerWell(nextGen[k])
    /\ (pc \in {"mutate", "fill"} /\ child # <<>>) => OneGenePerWell(child)
    /\ pc = "done" => OneGenePerWell(best)

\* a generation has ended whose child mixes genes of two parents in different orders
\* and was mutated to deactivate a well
C9_Witness ==
    /\ pc = "generation"
    /\ gen >= 1
    /\ pop > EliteCount
    /\ Len(population) = pop
    /\ \E g \in 1..Len(wells) : population[pop][g][2] = 0
    /\ \E g \in 1..Len(wells) : population[pop][g][2] = 1
    /\ \E k \in 1..EliteCount : population[k] # population[1]
    /\ \A k \in 1..pop : OneGenePerWell(population[k])

\* the genes of the chromosome whose flag is set
ActiveGenes == {g \in 1..Len(chromosome) : chromosome[g][2] = 1}

\* every stage of the well with this id is completed
AllCompleted(w) ==
    \A k \in 1..Len(wells) :
        wells[k].well_id = w => \A s \in 1..Len(wells[k].stages) : wells[k].stages[s].completed

\* C11: fitness returns +infinity, as a value, whenever the decoded sequence is empty,
\* which happens when all genes are inactive or every stage of every active well is
\* completed; whenever the sequence is non-empty the value returned is finite.
C11_EmptyIsInfinite ==
    pc = "done" =>
        /\ (Len(sequence) = 0) <=> (\A g \in ActiveGenes : AllCompleted(chromosome[g][1]))
        /\ (Len(sequence) = 0) => score = [inf |-> TRUE, val |-> 0]
        /\ (Len(sequence) # 0) => ~score.inf

\* fitness has returned +infinity for a chromosome with an active gene whose well is
\* completed and an inactive gene whose well has an open stage
C11_Witness ==
    /\ pc = "done"
    /\ score.inf
    /\ timeline = <<>>
    /\ \E g \in ActiveGenes : AllCompleted(chromosome[g][1])
    /\ \E g \in 1..Len(chromosome) : g \notin ActiveGenes /\ ~AllCompleted(chromosome[g][1])

\* the latest finish on the timeline
LastFinish ==
    IF timeline = <<>> THEN 0
    ELSE CHOOSE t \in {timeline[i].finish : i \in 1..Len(timeline)} :
            \A i \in 1..Len(timeline) : timeline[i].finish <= t

\* C12: for a non-empty decoded sequence, fitness is the makespan in days (hours / 24)
\* minus 0.1 times the number of wells the chromosome activates; as 240 times the
\* value, 10 * makespan hours - 24 * active genes.
C12_ScoreFormula ==
    (pc = "done" /\ Len(sequence) # 0) =>
        /\ makespan = LastFinish
        /\ score = [inf |-> FALSE, val |-> 10 * LastFinish - 24 * Cardinality(ActiveGenes)]

\* a score was returned for a chromosome with one active and one inactive gene
C12_Witness ==
    /\ pc = "done"
    /\ Len(sequence) = 2
    /\ Cardinality(ActiveGenes) = 1
    /\ Len(chromosome) = 2
    /\ score = [inf |-> FALSE, val |-> 10 * 6 - 24]

\* total duration of the entries of the sequence that belong to well w
WellTotal(w) == LET OfWell(e) == e.stage.well_id = w IN SumDurations(SelectSeq(sequence, OfWell))

\* C20: for every sequence with positive durations the makespan returned by simulate
\* is at most the sum of all stage durations, at least the total duration assigned to
\* either fleet, and at least the total duration of the stages of any single well.
C20_MakespanBounds ==
    pc = "returned" =>
        /\ makespan <= SumDurations(sequence)
        /\ \A f \in Fleets : makespan >= FleetTotal(f)
        /\ \A w \in SimWellIds : makespan >= WellTotal(w)

\* simulate returned a makespan strictly inside all three bounds: idle time on both
\* fleets, and still some overlap between them
C20_Witness ==
    /\ pc = "returned"
    /\ Len(sequence) >= 3
    /\ makespan < SumDurations(sequence)
    /\ \A f \in Fleets : FleetTotal(f) > 0 /\ makespan > FleetTotal(f)
    /\ \A w \in SimWellIds : WellTotal(w) > 0 /\ makespan > WellTotal(w)

\* C13: crossover called with a parent chromosome of fewer than 3 genes fails with a
\* fatal error and returns no child; when the parents have 3 genes or more the cut
\* satisfies 1 <= cut <= length - 2.
C13_ShortParentFails ==
    pc # "crossover" =>
        /\ (Len(p1) < 3 \/ Len(p2) < 3) => (pc = "error" /\ child = <<>>)
        /\ (Len(p1) >= 3 /\ Len(p2) >= 3) => (pc = "done" /\ 1 <= cut /\ cut <= Len(p1) - 2)

\* C13 (amended): crossover fails with a fatal error and returns no child exactly when
\* the first parent has fewer than 3 genes, whatever the second parent; when the first
\* parent has 3 genes or more a child is returned and 1 <= cut <= len(p1) - 2.
C13_FirstParentDecides ==
    pc # "crossover" =>
        /\ Len(p1) < 3 => (pc = "error" /\ child = <<>>)
        /\ Len(p1) >= 3 => (pc = "done" /\ 1 <= cut /\ cut <= Len(p1) - 2)

\* crossover failed on a first parent of two genes and a second parent of four
C13_Witness ==
    /\ pc = "error"
    /\ Len(p1) = 2
    /\ Len(p2) = 4
    /\ cut = 0
    /\ child = <<>>

\* C14: the duration estimator fails with InvalidInputError whenever the pump rate is
\* zero or negative or the fluid volume is negative, and never returns a duration for
\* such a row, so no stage is created from it.
C14_InvalidRowRejected ==
    (pc # "estimate" /\ (row.rate <= 0 \/ row.cvol < 0)) =>
        /\ pc = "error"
        /\ pumpHr = [kind |-> "InvalidInputError", num |-> 0, den |-> 0]
        /\ wells = <<>>

\* the number of elites of the current population
Elites == Min(EliteCount, Len(population))

\* C16: in each generation the 10 best chromosomes of the sorted population enter the
\* next generation unchanged in flags and gene order; crossover and the in-place
\* mutation of a child never modify an elite chromosome or either parent.
C16_ElitesUntouched ==
    [][/\ (pc = "generation" /\ pc' = "fill") =>
             /\ nextGen' = SubSeq(population', 1, Elites)
             /\ \A k \in 1..Elites : \A l \in (Elites + 1)..Len(population) :
                   FitLeq(Fitness(population'[k], wells), Fitness(population'[l], wells))
       /\ pc \in {"fill", "mutate"} =>
             /\ SubSeq(nextGen', 1, Elites) = SubSeq(population, 1, Elites)
             /\ SubSeq(population', 1, Elites) = SubSeq(population, 1, Elites)
       /\ pc = "mutate" =>
             /\ population' = population
             /\ SubSeq(nextGen', 1, Len(nextGen)) = nextGen]_vars

\* a child of an elite parent was mutated to other flags and appended behind the ten
\* elites, which are still the first ten of the sorted population
C16_Witness ==
    /\ pc = "fill"
    /\ pop > EliteCount
    /\ gen = 1
    /\ Len(nextGen) = pop
    /\ child = nextGen[pop]
    /\ \E g \in 1..Len(child) : child[g][2] = 0
    /\ SubSeq(nextGen, 1, EliteCount) = SubSeq(population, 1, EliteCount)
    /\ \E k \in 1..EliteCount : nextGen[k] # nextGen[1]

\* a bound on the steps optimize still takes: the generations left, each a sort, two
\* steps per child still to add, and the hand-over of nextGen; 0 once it has returned
StepsLeft ==
    LET perGeneration == 2 * pop + 2
    IN CASE pc = "done" -> 0
         [] pc = "generation" -> (generations - gen) * perGeneration + 1
         [] pc = "fill" ->
               (generations - gen - 1) * perGeneration + 2 * (pop - Len(nextGen)) + 2
         [] pc = "mutate" ->
               (generations - gen - 1) * perGeneration + 2 * (pop - Len(nextGen)) + 1

\* optimize has a next step and none of the random draws it may make fails:
\* random.sample finds two chromosomes in the pool, random.randint a cut point
CanStep ==
    CASE pc = "generation" -> gen <= generations
      [] pc = "fill" ->
            FillMore(nextGen, pop) =>
                /\ Len(ParentPool(population)) >= 2
                /\ \A i \in 1..Len(ParentPool(population)) : CutPoints(population[i]) # {}
      [] pc = "mutate" -> MutateResults(child, DefaultRate) # {}
      [] OTHER -> FALSE

\* C17: termination, in its finite form: optimize can always take a step until it has
\* returned and every step lowers the bound StepsLeft, which never goes below 0.
\* C17: for at least 3 wells and pop >= 2, optimize terminates after exactly
\* `generations` iterations of the outer loop, every pass of the fill loop adding one
\* child, and the chromosome returned is a member of the final population whose
\* fitness is the minimum over that population.
C17_Terminates ==
    /\ [](/\ StepsLeft >= 0
          /\ pc # "done" => CanStep
          /\ pc = "done" =>
                /\ gen = generations
                /\ \E k \in 1..Len(population) : population[k] = best
                /\ \A k \in 1..Len(population) :
                      FitLeq(Fitness(best, wells), Fitness(population[k], wells)))
    /\ [][/\ StepsLeft' < StepsLeft
          /\ pc = "mutate" => Len(nextGen') = Len(nextGen) + 1
          /\ gen' # gen => gen' = gen + 1]_vars

\* optimize returned after two generations, and the final population holds a
\* chromosome strictly worse than the one returned
C17_Witness ==
    /\ pc = "done"
    /\ generations = 2
    /\ gen = 2
    /\ \E k \in 1..Len(population) : population[k] = best
    /\ \E k \in 1..Len(population) :
          FitLess(Fitness(best, wells), Fitness(population[k], wells))

\* C18: the population holds exactly pop chromosomes at the start of every generation
\* and at the end of the search, for every pop >= 2, also below the elite count.
C18_PopulationSize ==
    pc \in {"generation", "done"} => Len(population) = pop

\* two generations were run on a population smaller than the elite count
C18_Witness ==
    /\ pc = "done"
    /\ pop < EliteCount
    /\ gen = 2
    /\ Len(population) = pop
    /\ Len(nextGen) = pop

\* some well of the pad has a stage that is not completed
WorkLeft == \E w \in 1..Len(wells) : \E s \in 1..Len(wells[w].stages) : ~wells[w].stages[s].completed

\* C19: if at least one well has an uncompleted stage, optimize never returns a
\* degenerate chromosome: the chromosome returned decodes to a non-empty sequence and
\* has finite fitness.
C19_NoDegenerateResult ==
    (pc = "done" /\ WorkLeft) =>
        /\ \E g \in 1..Len(best) : best[g][2] = 1 /\ ~AllCompleted(best[g][1])
        /\ Len(BuildSequence(best, wells)) > 0
        /\ ~Fitness(best, wells).inf

\* optimize returned a schedulable chromosome although the final population holds a
\* chromosome that decodes to the empty sequence
C19_Witness ==
    /\ pc = "done"
    /\ WorkLeft
    /\ gen >= 1
    /\ ~Fitness(best, wells).inf
    /\ \E k \in 1..Len(population) : Fitness(population[k], wells).inf

====
